---- MODULE Spec2Model ----
(***************************************************************************)
(* Model of src/app.py: the in-memory EPHEMERAL_STORE with its two request *)
(* handlers (edit_image, temp_image), the sweep cleanup_ephemeral_store,   *)
(* and the greedy text wrapper wrap_text.                                  *)
(*                                                                         *)
(* Three specifications share the variables:                               *)
(*   Spec      the handlers run one at a time, each as one step;           *)
(*   SpecWrap  wrap_text run statement by statement on bounded inputs;     *)
(*   SpecConc  the handlers run by several server threads, interleaved at  *)
(*             the granularity of the dictionary operations.               *)
(***************************************************************************)
EXTENDS Integers, Sequences, FiniteSets, TLC

\* ------------------------------------------------------------------ bounds

\* uuid4 values handed out in one run
MaxIds == 2
\* the clock stops advancing here
MaxTime == 93
\* amounts of time that pass between two readings of the clock
TickSteps == {30, 31}
\* byte strings the compositor can produce
Payloads == {"jpegA", "jpegB"}
\* longest text given to wrap_text, in characters
MaxTextLen == 5
\* widest max_width given to wrap_text
MaxWidth == 6
\* server threads handling requests at the same time
NumThreads == 2

\* ------------------------------------------------------- program constants

IMAGE_LIFETIME == 60

\* An id no uuid4 call ever returns: every id a client makes up itself.
\* uuid4 values start at 1.
UnknownId == 0

\* What can go wrong between the start of edit_image and the insertion.
Failures == {"source_fetch", "source_decode", "logo_fetch", "logo_decode", "font_load"}

VARIABLES
    EPHEMERAL_STORE,  \* id -> [data, expires_at]
    clock,            \* time.time()
    issued,           \* number of uuid4 values handed out so far
    response,         \* the last HTTP response sent (Spec)
    inserted,         \* history: id -> [data, at, expires_at] as first stored
    lastSweep,        \* history: the last run of cleanup_ephemeral_store
    missed,           \* history: ids for which a fetch answered 404
    wrap,             \* the frame of wrap_text (SpecWrap)
    th                \* the server threads' frames (SpecConc)

storeVars == <<EPHEMERAL_STORE, clock, issued>>
histVars == <<response, inserted, lastSweep, missed>>
vars == <<EPHEMERAL_STORE, clock, issued, response, inserted, lastSweep, missed, wrap, th>>

\* ------------------------------------------------------------ the store

EmptyStore == [k \in {} |-> [data |-> "", expires_at |-> 0]]

\* dict.pop(key, None)
DictPop(store, key) == [k \in DOMAIN store \ {key} |-> store[k]]

\* dict[key] = value
DictSet(store, key, value) ==
    [k \in DOMAIN store \cup {key} |-> IF k = key THEN value ELSE store[k]]

\* str(uuid.uuid4()): a value never handed out before
UuidReuse(n) == 1
uuid4(n) == n + 1

CleanupInclusive(store, now) ==
    LET expired_keys == {key \in DOMAIN store : now >= store[key].expires_at}
    IN  [k \in DOMAIN store \ expired_keys |-> store[k]]

CleanupInverted(store, now) ==
    LET expired_keys == {key \in DOMAIN store : now < store[key].expires_at}
    IN  [k \in DOMAIN store \ expired_keys |-> store[k]]

cleanup_ephemeral_store(store, now) ==
    LET expired_keys == {key \in DOMAIN store : now > store[key].expires_at}
    IN  [k \in DOMAIN store \ expired_keys |-> store[k]]

\* temp_image with the clock read as now1 by the sweep and as now2 by the
\* expiry check.  The result: the store left behind, the store as the sweep
\* left it, and the response.
TempImageNoRecheck(store, image_id, now1, now2) ==
    LET swept == cleanup_ephemeral_store(store, now1)
    IN  IF image_id \notin DOMAIN swept
        THEN [store |-> swept, swept |-> swept, status |-> 404,
              body |-> "Image not found or expired"]
        ELSE [store |-> swept, swept |-> swept, status |-> 200,
              body |-> swept[image_id].data]

TempImageSliding(store, image_id, now1, now2) ==
    LET swept == cleanup_ephemeral_store(store, now1)
    IN  IF image_id \notin DOMAIN swept
        THEN [store |-> swept, swept |-> swept, status |-> 404,
              body |-> "Image not found or expired"]
        ELSE LET image_entry == swept[image_id]
             IN  IF now2 > image_entry.expires_at
                 THEN [store |-> DictPop(swept, image_id), swept |-> swept,
                       status |-> 404, body |-> "Image has expired"]
                 ELSE [store |-> DictSet(swept, image_id,
                                   [data |-> image_entry.data,
                                    expires_at |-> now2 + IMAGE_LIFETIME]),
                       swept |-> swept,
                       status |-> 200, body |-> image_entry.data]

temp_image(store, image_id, now1, now2) ==
    LET swept == cleanup_ephemeral_store(store, now1)
    IN  IF image_id \notin DOMAIN swept
        THEN [store |-> swept, swept |-> swept, status |-> 404,
              body |-> "Image not found or expired"]
        ELSE LET image_entry == swept[image_id]
             IN  IF now2 > image_entry.expires_at
                 THEN [store |-> DictPop(swept, image_id), swept |-> swept,
                       status |-> 404, body |-> "Image has expired"]
                 ELSE [store |-> swept, swept |-> swept,
                       status |-> 200, body |-> image_entry.data]

\* edit_image: `outcome` is "ok" or the step of the compositing that raised,
\* `output` the JPEG bytes of a compositing that went through, `image_id` the
\* uuid4 value.  Everything up to line 113 touches no shared state.
EditImageInsertFirst(store, outcome, output, image_id, now) ==
    LET stored == DictSet(store, image_id,
                          [data |-> output, expires_at |-> now + IMAGE_LIFETIME])
    IN  IF outcome # "ok"
        THEN [store |-> stored, status |-> 400, body |-> outcome, id |-> UnknownId]
        ELSE [store |-> stored, status |-> 200,
              body |-> "Image generated successfully", id |-> image_id]

edit_image(store, outcome, output, image_id, now) ==
    IF outcome # "ok"
    THEN [store |-> store, status |-> 400, body |-> outcome, id |-> UnknownId]
    ELSE [store |-> DictSet(store, image_id,
                            [data |-> output, expires_at |-> now + IMAGE_LIFETIME]),
          status |-> 200, body |-> "Image generated successfully", id |-> image_id]

\* ------------------------------------------- Spec: one handler at a time

NoResponse == [op |-> "none", id |-> UnknownId, status |-> 0, body |-> "", at |-> 0]
NoSweep == [now |-> 0, before |-> EmptyStore, after |-> EmptyStore]
NoWrap == [pc |-> "off"]
NoThreads == <<>>

\* Ids a client can ask for: those some response told it, and made-up ones.
KnownIds == (1..issued) \cup {UnknownId}

StoreInit ==
    /\ EPHEMERAL_STORE = EmptyStore
    /\ clock = 0
    /\ issued = 0

HistInit ==
    /\ response = NoResponse
    /\ inserted = EmptyStore
    /\ lastSweep = NoSweep
    /\ missed = {}

Init ==
    /\ StoreInit
    /\ HistInit
    /\ wrap = NoWrap
    /\ th = NoThreads

\* Time passes between two requests.
Tick(d) ==
    /\ clock + d <= MaxTime
    /\ clock' = clock + d
    /\ UNCHANGED <<EPHEMERAL_STORE, issued, histVars, wrap, th>>

\* POST /edit_image
EditImage(outcome, output) ==
    /\ outcome = "ok" => issued < MaxIds
    /\ LET image_id == uuid4(issued)
           r == edit_image(EPHEMERAL_STORE, outcome, output, image_id, clock)
       IN  /\ EPHEMERAL_STORE' = r.store
           /\ issued' = IF outcome = "ok" THEN issued + 1 ELSE issued
           /\ response' = [op |-> "edit_image", id |-> r.id, status |-> r.status,
                           body |-> r.body, at |-> clock]
           /\ inserted' =
                 IF image_id \in DOMAIN r.store /\ image_id \notin DOMAIN inserted
                 THEN DictSet(inserted, image_id,
                              [data |-> output, at |-> clock,
                               expires_at |-> r.store[image_id].expires_at])
                 ELSE inserted
    /\ UNCHANGED <<clock, lastSweep, missed, wrap, th>>

\* GET /temp_image/<image_id>; d is the time between the sweep's reading of
\* the clock and the expiry check's.
TempImage(image_id, d) ==
    /\ clock + d <= MaxTime
    /\ LET r == temp_image(EPHEMERAL_STORE, image_id, clock, clock + d)
       IN  /\ EPHEMERAL_STORE' = r.store
           /\ response' = [op |-> "temp_image", id |-> image_id, status |-> r.status,
                           body |-> r.body, at |-> clock + d]
           /\ lastSweep' = [now |-> clock, before |-> EPHEMERAL_STORE, after |-> r.swept]
           /\ missed' = IF r.status = 404 THEN missed \cup {image_id} ELSE missed
    /\ clock' = clock + d
    /\ UNCHANGED <<issued, inserted, wrap, th>>

Next ==
    \/ \E d \in TickSteps : Tick(d)
    \/ \E outcome \in {"ok"} \cup Failures, output \in Payloads : EditImage(outcome, output)
    \/ \E image_id \in KnownIds, d \in {0} \cup TickSteps : TempImage(image_id, d)

Spec == Init /\ [][Next]_vars

\* --------------------------------------------------- claims checked on Spec

\* The ids that were stored once and are stored no more.
Removed == DOMAIN inserted \ DOMAIN EPHEMERAL_STORE

(* C1: a fetch of an id that a successful generate returned, answered at a   *)
(* time no later than the insertion time + 60, is a hit and returns exactly  *)
(* the payload inserted under that id, whatever inserts, fetches and sweeps  *)
(* came in between.                                                          *)
C1_FetchWithinLifetimeHits ==
    (/\ response.op = "temp_image"
     /\ response.id \in DOMAIN inserted
     /\ response.at <= inserted[response.id].at + IMAGE_LIFETIME)
    => (/\ response.status = 200
        /\ response.body = inserted[response.id].data)

\* A hit at exactly insertion time + 60, with another entry inserted and
\* already removed in between.
C1_Witness ==
    /\ response.op = "temp_image"
    /\ response.id \in DOMAIN inserted
    /\ response.at = inserted[response.id].at + IMAGE_LIFETIME
    /\ response.status = 200
    /\ Removed # {}

(* C2: a fetch of an id whose entry has expires_at < now when the expiry     *)
(* check reads the clock answers 404, never the payload, whether the sweep   *)
(* had removed the entry or not, and afterwards the id is no key of          *)
(* EPHEMERAL_STORE.                                                          *)
C2_ExpiredFetchIsNotFound ==
    (/\ response.op = "temp_image"
     /\ response.id \in DOMAIN inserted
     /\ inserted[response.id].expires_at < response.at)
    => (/\ response.status = 404
        /\ response.id \notin DOMAIN EPHEMERAL_STORE)

\* The fetch's own sweep left the entry in place (it was not expired yet at
\* the sweep's reading of the clock) and the expiry check caught it.
C2_Witness ==
    /\ response.op = "temp_image"
    /\ response.id \in DOMAIN inserted
    /\ inserted[response.id].expires_at < response.at
    /\ response.id \in DOMAIN lastSweep.after
    /\ response.status = 404

(* C3: a sweep run at time now removes every entry with expires_at < now,    *)
(* removes no entry with expires_at > now, and leaves every surviving entry  *)
(* with its payload and expires_at unchanged.                                *)
C3_SweepRemovesExactlyExpired ==
    /\ DOMAIN lastSweep.after \subseteq DOMAIN lastSweep.before
    /\ \A k \in DOMAIN lastSweep.before :
          /\ lastSweep.before[k].expires_at < lastSweep.now
                => k \notin DOMAIN lastSweep.after
          /\ lastSweep.before[k].expires_at > lastSweep.now
                => k \in DOMAIN lastSweep.after
    /\ \A k \in DOMAIN lastSweep.after : lastSweep.after[k] = lastSweep.before[k]

\* A sweep that removed one entry and kept another one that was still live.
C3_Witness ==
    /\ \E k \in DOMAIN lastSweep.before :
          lastSweep.before[k].expires_at < lastSweep.now
    /\ \E k \in DOMAIN lastSweep.before :
          /\ lastSweep.before[k].expires_at > lastSweep.now
          /\ k \in DOMAIN lastSweep.after

(* C4: every entry present in EPHEMERAL_STORE has expires_at equal to its    *)
(* own insertion time + 60 and the payload it was inserted with; no fetch    *)
(* and no insert of another id resets or extends it.                         *)
C4_ExpiryIsInsertionPlusLifetime ==
    \A id \in DOMAIN EPHEMERAL_STORE :
        /\ id \in DOMAIN inserted
        /\ EPHEMERAL_STORE[id].expires_at = inserted[id].at + IMAGE_LIFETIME
        /\ EPHEMERAL_STORE[id].data = inserted[id].data

\* An entry still stored after a successful fetch of it at a later time than
\* its insertion, with another id inserted since.
C4_Witness ==
    /\ response.op = "temp_image"
    /\ response.status = 200
    /\ response.id \in DOMAIN EPHEMERAL_STORE
    /\ response.at > inserted[response.id].at
    /\ \E other \in DOMAIN EPHEMERAL_STORE : other # response.id

(* C5: a generate request that fails at any step (source or logo fetch,      *)
(* image decode, font load) answers 400 with an error message and leaves     *)
(* EPHEMERAL_STORE exactly as it was.                                        *)
C5_FailedGenerateLeavesStore ==
    [][(\E outcome \in Failures, output \in Payloads : EditImage(outcome, output))
       => (/\ response'.op = "edit_image"
           /\ response'.status = 400
           /\ response'.body # ""
           /\ EPHEMERAL_STORE' = EPHEMERAL_STORE)]_vars

\* A failed generate answered while the store held an entry.
C5_Witness ==
    /\ response.op = "edit_image"
    /\ response.status = 400
    /\ EPHEMERAL_STORE # EmptyStore

(* C10: no entry is resurrected: an id removed from EPHEMERAL_STORE is never *)
(* a key of it again, and once a fetch of an id has answered 404 no later    *)
(* fetch of that id is a hit.                                                *)
C10_NoResurrection ==
    [][/\ \A id \in Removed : id \notin DOMAIN EPHEMERAL_STORE'
       /\ ~(/\ response'.op = "temp_image"
            /\ response'.status = 200
            /\ response'.id \in missed)]_vars

\* An id was removed and missed by a fetch, and an entry inserted after its
\* expiry is stored.
C10_Witness ==
    \E id \in Removed \cap missed :
        \E later \in DOMAIN EPHEMERAL_STORE :
            inserted[later].at > inserted[id].expires_at

\* ------------------------------------------------------------- wrap_text

\* Strings are sequences of characters.  The caller upper-cases the text.
Letters == {"A", "B"}
Whitespace == {" ", "\t"}
Chars == Letters \cup Whitespace

\* A font, as far as textbbox's width goes: the advance of each character.
Fixed10 == [wide |-> 10, narrow |-> 10, space |-> 10]
Fonts == {Fixed10, [wide |-> 4, narrow |-> 1, space |-> 1],
          [wide |-> 1, narrow |-> 1, space |-> 1]}

Advance(font, c) ==
    IF c \in Whitespace THEN font.space
    ELSE IF c = "A" THEN font.wide ELSE font.narrow

\* draw.textbbox((0, 0), s, font=font)[2]
RECURSIVE textbbox_w(_, _)
textbbox_w(font, s) ==
    IF s = <<>> THEN 0 ELSE Advance(font, Head(s)) + textbbox_w(font, Tail(s))

\* text.split(): the maximal runs of non-whitespace characters
RECURSIVE SplitAcc(_, _, _)
SplitAcc(s, cur, acc) ==
    IF s = <<>>
    THEN IF cur = <<>> THEN acc ELSE Append(acc, cur)
    ELSE IF Head(s) \in Whitespace
         THEN SplitAcc(Tail(s), <<>>, IF cur = <<>> THEN acc ELSE Append(acc, cur))
         ELSE SplitAcc(Tail(s), Append(cur, Head(s)), acc)

split(text) == SplitAcc(text, <<>>, <<>>)

\* One iteration of the loop over words[1:].
LoopBodyDropsLine(current_line, lines, word, font, max_width) ==
    LET test_line == current_line \o <<" ">> \o word
        w == textbbox_w(font, test_line)
    IN  IF w <= max_width
        THEN [current_line |-> test_line, lines |-> lines]
        ELSE [current_line |-> word, lines |-> lines]

LoopBodyMeasuresWord(current_line, lines, word, font, max_width) ==
    LET test_line == current_line \o <<" ">> \o word
        w == textbbox_w(font, word)
    IN  IF w <= max_width
        THEN [current_line |-> test_line, lines |-> lines]
        ELSE [current_line |-> word, lines |-> Append(lines, current_line)]

LoopBodyStrict(current_line, lines, word, font, max_width) ==
    LET test_line == current_line \o <<" ">> \o word
        w == textbbox_w(font, test_line)
    IN  IF w < max_width
        THEN [current_line |-> test_line, lines |-> lines]
        ELSE [current_line |-> word, lines |-> Append(lines, current_line)]

loop_body(current_line, lines, word, font, max_width) ==
    LET test_line == current_line \o <<" ">> \o word
        w == textbbox_w(font, test_line)
    IN  IF w <= max_width
        THEN [current_line |-> test_line, lines |-> lines]
        ELSE [current_line |-> word, lines |-> Append(lines, current_line)]

\* ---------------------------------------- SpecWrap: wrap_text, by statement

HelloWorldFoo ==
    <<"H", "E", "L", "L", "O", " ", "W", "O", "R", "L", "D", " ", "F", "O", "O">>

Texts == UNION {[1..n -> Chars] : n \in 0..MaxTextLen}

WrapInputs ==
    [text : Texts, font : Fonts, max_width : 1..MaxWidth]
    \cup {[text |-> HelloWorldFoo, font |-> Fixed10, max_width |-> 139]}

WrapInit ==
    /\ StoreInit
    /\ HistInit
    /\ th = NoThreads
    /\ \E in \in WrapInputs :
          wrap = [pc |-> "call", text |-> in.text, font |-> in.font,
                  max_width |-> in.max_width, words |-> <<>>, i |-> 0,
                  current_line |-> <<>>, lines |-> <<>>]

\* words = text.split(); the early return; lines = []; current_line = words[0]
WrapCall ==
    /\ wrap.pc = "call"
    /\ LET words == split(wrap.text)
       IN  wrap' = IF words = <<>>
                   THEN [wrap EXCEPT !.pc = "done", !.lines = << <<>> >>]
                   ELSE [wrap EXCEPT !.pc = "loop", !.words = words, !.i = 2,
                                     !.current_line = words[1]]
    /\ UNCHANGED <<storeVars, histVars, th>>

\* for word in words[1:]
WrapLoop ==
    /\ wrap.pc = "loop"
    /\ wrap.i <= Len(wrap.words)
    /\ LET r == loop_body(wrap.current_line, wrap.lines, wrap.words[wrap.i],
                          wrap.font, wrap.max_width)
       IN  wrap' = [wrap EXCEPT !.i = wrap.i + 1, !.current_line = r.current_line,
                                !.lines = r.lines]
    /\ UNCHANGED <<storeVars, histVars, th>>

\* lines.append(current_line); return lines
WrapReturn ==
    /\ wrap.pc = "loop"
    /\ wrap.i > Len(wrap.words)
    /\ wrap' = [wrap EXCEPT !.pc = "done", !.lines = Append(wrap.lines, wrap.current_line)]
    /\ UNCHANGED <<storeVars, histVars, th>>

WrapNext == WrapCall \/ WrapLoop \/ WrapReturn

SpecWrap == WrapInit /\ [][WrapNext]_vars

\* ------------------------------------------------ claims checked on SpecWrap

\* " ".join(words)
RECURSIVE JoinSpaces(_)
JoinSpaces(words) ==
    IF words = <<>> THEN <<>>
    ELSE IF Len(words) = 1 THEN words[1]
    ELSE words[1] \o <<" ">> \o JoinSpaces(Tail(words))

RECURSIVE SumTo(_, _)
SumTo(f, n) == IF n = 0 THEN 0 ELSE f[n] + SumTo(f, n - 1)

\* The greedy procedure, stated as a property of its result: the lines are
\* the words cut into consecutive runs joined by single spaces; inside a line
\* every prefix of two or more words fits; and the line taken together with
\* the word that opens the next line does not fit.
IsGreedy(lines, words, font, max_width) ==
    LET count == [k \in 1..Len(lines) |-> Len(split(lines[k]))]
        first(k) == 1 + SumTo(count, k - 1)
        last(k) == SumTo(count, k)
        Run(a, b) == JoinSpaces(SubSeq(words, a, b))
    IN  /\ SumTo(count, Len(lines)) = Len(words)
        /\ \A k \in 1..Len(lines) :
              /\ count[k] >= 1
              /\ lines[k] = Run(first(k), last(k))
              /\ \A j \in (first(k) + 1)..last(k) :
                    textbbox_w(font, Run(first(k), j)) <= max_width
              /\ k < Len(lines) =>
                    textbbox_w(font, Run(first(k), last(k) + 1)) > max_width

(* C6: for a text with at least one token, joining the returned lines with   *)
(* single spaces and splitting on whitespace gives the token sequence of the *)
(* text: no word split, dropped, duplicated or reordered.                    *)
C6_WrapKeepsTokens ==
    (wrap.pc = "done" /\ split(wrap.text) # <<>>)
    => split(JoinSpaces(wrap.lines)) = split(wrap.text)

\* Three words wrapped into two lines, from a text with a tab or a run of
\* whitespace in it.
C6_Witness ==
    /\ wrap.pc = "done"
    /\ Len(wrap.lines) = 2
    /\ Len(split(wrap.text)) = 3
    /\ JoinSpaces(split(wrap.text)) # wrap.text

(* C7: every returned line measures <= max_width, except a line that is a    *)
(* single word measuring more than max_width on its own; so every line of    *)
(* two or more words measures <= max_width.                                  *)
C7_LinesFit ==
    wrap.pc = "done"
    => \A k \in 1..Len(wrap.lines) :
          \/ textbbox_w(wrap.font, wrap.lines[k]) <= wrap.max_width
          \/ /\ Len(split(wrap.lines[k])) = 1
             /\ textbbox_w(wrap.font, split(wrap.lines[k])[1]) > wrap.max_width

\* An overflowing single word next to a line of two words that fits.
C7_Witness ==
    /\ wrap.pc = "done"
    /\ \E k \in 1..Len(wrap.lines) :
          textbbox_w(wrap.font, wrap.lines[k]) > wrap.max_width
    /\ \E k \in 1..Len(wrap.lines) : Len(split(wrap.lines[k])) = 2

(* C8: wrap_text returns exactly the lines of the greedy procedure (the      *)
(* first word opens the line; a next word is appended with one space if the  *)
(* tentative line measures <= max_width, otherwise the line is closed and    *)
(* the word opens a new one), exactly one empty line for an empty or         *)
(* all-whitespace text, and <<"HELLO WORLD", "FOO">> for "HELLO WORLD FOO"   *)
(* measured at 10 per character with max_width 139.                          *)
C8_WrapIsGreedy ==
    wrap.pc = "done"
    => /\ split(wrap.text) = <<>> => wrap.lines = << <<>> >>
       /\ split(wrap.text) # <<>> =>
             IsGreedy(wrap.lines, split(wrap.text), wrap.font, wrap.max_width)
       /\ (wrap.text = HelloWorldFoo /\ wrap.font = Fixed10 /\ wrap.max_width = 139)
             => wrap.lines = <<SubSeq(HelloWorldFoo, 1, 11), SubSeq(HelloWorldFoo, 13, 15)>>

\* A tentative line that measures exactly max_width was accepted, and a later
\* word opened a new line.
C8_Witness ==
    /\ wrap.pc = "done"
    /\ Len(wrap.lines) = 2
    /\ Len(split(wrap.lines[1])) = 2
    /\ textbbox_w(wrap.font, wrap.lines[1]) = wrap.max_width

\* ------------------------------- SpecConc: handlers on several threads

\* The server runs the handlers on a pool of threads over the one unlocked
\* dictionary.  A thread can be preempted between any two dictionary
\* operations, so temp_image is cut there: the sweep's reading of the clock,
\* the creation of the items() iterator, each step of the iterator, each
\* pop, the membership test, the subscript, the expiry check.

Threads == 1..NumThreads

NoEntry == [data |-> "", expires_at |-> 0]

IdleFrame ==
    [pc |-> "idle", op |-> "none", image_id |-> UnknownId, now |-> 0,
     di_used |-> 0, di_len |-> 0, di_pos |-> 0, expired_keys |-> <<>>,
     image_entry |-> NoEntry, status |-> 0, body |-> ""]

\* The frame of a handler that has answered.
Answered(frame, status, body) ==
    [IdleFrame EXCEPT !.pc = "done", !.op = frame.op, !.image_id = frame.image_id,
                      !.status = status, !.body = body]

\* The smallest element of a non-empty set of ids.
Min(S) == CHOOSE k \in S : \A other \in S : k <= other

ConcInit ==
    /\ StoreInit
    /\ HistInit
    /\ wrap = NoWrap
    /\ th = [t \in Threads |-> IdleFrame]

\* A thread picks up GET /temp_image/<image_id>.
StartFetch(t, image_id) ==
    /\ th[t].pc = "idle"
    /\ th' = [th EXCEPT ![t] = [IdleFrame EXCEPT !.pc = "cleanup_now",
                                                 !.op = "temp_image",
                                                 !.image_id = image_id]]
    /\ UNCHANGED <<storeVars, histVars, wrap>>

\* cleanup_ephemeral_store: now = time.time()
CleanupNow(t) ==
    /\ th[t].pc = "cleanup_now"
    /\ th' = [th EXCEPT ![t].pc = "cleanup_iter", ![t].now = clock]
    /\ UNCHANGED <<storeVars, histVars, wrap>>

\* iter(EPHEMERAL_STORE.items()): the iterator remembers the dictionary's
\* size.  Keys are visited in insertion order, which is the order of the ids.
CleanupIter(t) ==
    /\ th[t].pc = "cleanup_iter"
    /\ th' = [th EXCEPT ![t].pc = "cleanup_next",
                        ![t].di_used = Cardinality(DOMAIN EPHEMERAL_STORE),
                        ![t].di_len = Cardinality(DOMAIN EPHEMERAL_STORE),
                        ![t].di_pos = 1]
    /\ UNCHANGED <<storeVars, histVars, wrap>>

\* One step of the list comprehension: the iterator's next item and the test
\* now > val["expires_at"].  The iterator raises RuntimeError when the
\* dictionary's size is no longer the one it remembers, or when it finds
\* more items than it expected; nothing in temp_image catches it, and the
\* server answers 500.
CleanupNext(t) ==
    /\ th[t].pc = "cleanup_next"
    /\ LET f == th[t]
           rest == {k \in DOMAIN EPHEMERAL_STORE : k >= f.di_pos}
       IN  th' = [th EXCEPT ![t] =
                 IF f.di_used # Cardinality(DOMAIN EPHEMERAL_STORE)
                 THEN Answered(f, 500, "RuntimeError: dictionary changed size during iteration")
                 ELSE IF rest = {}
                 THEN [f EXCEPT !.pc = "cleanup_pop", !.di_used = 0, !.di_len = 0,
                                !.di_pos = 0]
                 ELSE IF f.di_len = 0
                 THEN Answered(f, 500, "RuntimeError: dictionary keys changed during iteration")
                 ELSE LET key == Min(rest)
                      IN  [f EXCEPT !.di_pos = key + 1, !.di_len = f.di_len - 1,
                                    !.expired_keys =
                                        IF f.now > EPHEMERAL_STORE[key].expires_at
                                        THEN Append(f.expired_keys, key)
                                        ELSE f.expired_keys]]
    /\ UNCHANGED <<storeVars, histVars, wrap>>

\* for key in expired_keys: EPHEMERAL_STORE.pop(key, None)
CleanupPop(t) ==
    /\ th[t].pc = "cleanup_pop"
    /\ IF th[t].expired_keys = <<>>
       THEN /\ th' = [th EXCEPT ![t].pc = "check", ![t].now = 0]
            /\ UNCHANGED EPHEMERAL_STORE
       ELSE /\ EPHEMERAL_STORE' = DictPop(EPHEMERAL_STORE, Head(th[t].expired_keys))
            /\ th' = [th EXCEPT ![t].expired_keys = Tail(th[t].expired_keys)]
    /\ UNCHANGED <<clock, issued, histVars, wrap>>

\* if image_id not in EPHEMERAL_STORE: abort(404)
CheckPresent(t) ==
    /\ th[t].pc = "check"
    /\ th' = [th EXCEPT ![t] =
                 IF th[t].image_id \notin DOMAIN EPHEMERAL_STORE
                 THEN Answered(th[t], 404, "Image not found or expired")
                 ELSE [th[t] EXCEPT !.pc = "read"]]
    /\ UNCHANGED <<storeVars, histVars, wrap>>

\* image_entry = EPHEMERAL_STORE[image_id]: KeyError when the key is gone,
\* uncaught, and the server answers 500.
ReadEntry(t) ==
    /\ th[t].pc = "read"
    /\ th' = [th EXCEPT ![t] =
                 IF th[t].image_id \notin DOMAIN EPHEMERAL_STORE
                 THEN Answered(th[t], 500, "KeyError")
                 ELSE [th[t] EXCEPT !.pc = "expiry",
                                    !.image_entry = EPHEMERAL_STORE[th[t].image_id]]]
    /\ UNCHANGED <<storeVars, histVars, wrap>>

\* if time.time() > image_entry["expires_at"]: pop and abort(404); else send_file
CheckExpiry(t) ==
    /\ th[t].pc = "expiry"
    /\ IF clock > th[t].image_entry.expires_at
       THEN /\ EPHEMERAL_STORE' = DictPop(EPHEMERAL_STORE, th[t].image_id)
            /\ th' = [th EXCEPT ![t] = Answered(th[t], 404, "Image has expired")]
       ELSE /\ th' = [th EXCEPT ![t] = Answered(th[t], 200, th[t].image_entry.data)]
            /\ UNCHANGED EPHEMERAL_STORE
    /\ UNCHANGED <<clock, issued, histVars, wrap>>

\* A thread runs POST /edit_image: the compositing works on the thread's own
\* objects, and the insertion is one dictionary store.
ConcEditImage(t, outcome, output) ==
    /\ th[t].pc = "idle"
    /\ outcome = "ok" => issued < MaxIds
    /\ LET image_id == uuid4(issued)
           r == edit_image(EPHEMERAL_STORE, outcome, output, image_id, clock)
       IN  /\ EPHEMERAL_STORE' = r.store
           /\ issued' = IF outcome = "ok" THEN issued + 1 ELSE issued
           /\ th' = [th EXCEPT ![t] = [IdleFrame EXCEPT !.pc = "done",
                                                        !.op = "edit_image",
                                                        !.image_id = r.id,
                                                        !.status = r.status,
                                                        !.body = r.body]]
    /\ UNCHANGED <<clock, histVars, wrap>>

\* The response is sent and the thread is free again.
Return(t) ==
    /\ th[t].pc = "done"
    /\ th' = [th EXCEPT ![t] = IdleFrame]
    /\ UNCHANGED <<storeVars, histVars, wrap>>

ConcNext ==
    \/ \E d \in TickSteps : Tick(d)
    \/ \E t \in Threads :
          \/ \E image_id \in KnownIds : StartFetch(t, image_id)
          \/ CleanupNow(t)
          \/ CleanupIter(t)
          \/ CleanupNext(t)
          \/ CleanupPop(t)
          \/ CheckPresent(t)
          \/ ReadEntry(t)
          \/ CheckExpiry(t)
          \/ \E outcome \in {"ok"} \cup Failures, output \in Payloads :
                ConcEditImage(t, outcome, output)
          \/ Return(t)

SpecConc == ConcInit /\ [][ConcNext]_vars

\* ------------------------------------------------ claims checked on SpecConc

(* C9: under every interleaving of the handlers on the shared unlocked       *)
(* EPHEMERAL_STORE, every fetch ends in the payload or in not-found (404): a *)
(* sweep or an insert of another handler racing the fetch's sweep scan or    *)
(* its check-then-read produces no other outcome.                            *)
C9_FetchEndsInPayloadOrNotFound ==
    \A t \in DOMAIN th :
        (th[t].pc = "done" /\ th[t].op = "temp_image")
        => \/ th[t].status = 404
           \/ th[t].status = 200 /\ th[t].body \in Payloads

====
